---- MODULE Spec2Model ----
(***************************************************************************)
(* Model of the internship matching engine of skillFit.                    *)
(*                                                                         *)
(* Two request handlers exist side by side: backend/backends.py (exported  *)
(* by backend/__init__.py) and backend/backends_bulletproof.py.  Each has  *)
(* its own module-level catalog (matches_df), its own scorer and its own   *)
(* /get_recommendations handler.  Definitions that model the second file   *)
(* carry the prefix bp_ where the two files use the same name.             *)
(*                                                                         *)
(* Text is a sequence of one-character strings, so that lower(), strip(),  *)
(* str.contains() and fuzz.ratio() are computed, not assumed.  Scores are  *)
(* integers in thousandths (600 is 0.6), the precision of round(score, 3). *)
(***************************************************************************)
EXTENDS Integers, Sequences, FiniteSets, TLC

(* ------------------------------------------------------------------ *)
(* Bounds of the model                                                   *)
(* ------------------------------------------------------------------ *)
MaxSkills == 2     \* longest skill list of a request
MaxRows == 3       \* most rows in the catalog file
MaxLocs == 2       \* longest location list of a request
MaxTopN == 2       \* largest in-range top_n a request asks for
MaxDraws == 2      \* most sample() calls counted on the shared generator

(* ------------------------------------------------------------------ *)
(* Text                                                                  *)
(* ------------------------------------------------------------------ *)
\* pandas' missing value (a float, not text): an empty CSV cell.
NaN == <<"nan">>

Max(a, b) == IF a >= b THEN a ELSE b
Min(a, b) == IF a <= b THEN a ELSE b

ToSet(s) == {s[i] : i \in DOMAIN s}

\* str.lower() on one character.
LowerChar(c) ==
  CASE c = "B" -> "b"
    [] c = "D" -> "d"
    [] c = "G" -> "g"
    [] c = "M" -> "m"
    [] c = "P" -> "p"
    [] c = "T" -> "t"
    [] OTHER -> c

\* str.lower()
Lower(s) == [i \in 1..Len(s) |-> LowerChar(s[i])]

RECURSIVE LStrip(_)
LStrip(s) == IF s # <<>> /\ Head(s) = " " THEN LStrip(Tail(s)) ELSE s

RECURSIVE RStrip(_)
RStrip(s) ==
  IF s # <<>> /\ s[Len(s)] = " " THEN RStrip(SubSeq(s, 1, Len(s) - 1)) ELSE s

\* str.strip()
Strip(s) == RStrip(LStrip(s))

\* str.replace(' ', '-')
ReplaceSpace(s) == [i \in 1..Len(s) |-> IF s[i] = " " THEN "-" ELSE s[i]]

\* needle in hay
Contains(hay, needle) ==
  \E i \in 1..(Len(hay) + 1) :
    /\ i + Len(needle) - 1 <= Len(hay)
    /\ SubSeq(hay, i, i + Len(needle) - 1) = needle

\* Series.str.contains(loc, case=False, na=False) on one cell.
StrContains(cell, loc) ==
  IF cell = NaN THEN FALSE ELSE Contains(Lower(cell), Lower(loc))

\* ", ".join(list)
RECURSIVE Join(_)
Join(l) ==
  IF l = <<>> THEN <<>>
  ELSE IF Len(l) = 1 THEN l[1]
  ELSE l[1] \o <<",", " ">> \o Join(Tail(l))

\* Length of a longest common subsequence.
RECURSIVE LCS(_, _)
LCS(a, b) ==
  IF a = <<>> \/ b = <<>> THEN 0
  ELSE IF Head(a) = Head(b) THEN 1 + LCS(Tail(a), Tail(b))
  ELSE Max(LCS(Tail(a), b), LCS(a, Tail(b)))

\* fuzzywuzzy's fuzz.ratio: 0 for an empty operand, otherwise
\* round(100 * 2*M / (len(a)+len(b))), M the number of matched characters.
FuzzRatio(a, b) ==
  IF a = <<>> \/ b = <<>> THEN 0
  ELSE (400 * LCS(a, b) + (Len(a) + Len(b))) \div (2 * (Len(a) + Len(b)))

\* num/den rounded to the nearest integer: round(score, 3) in thousandths.
\* The field block adds exactly 400 thousandths, so rounding the skills
\* block alone gives the same result as rounding the sum.
Round3(num, den) == (2 * num + den) \div (2 * den)

FieldThreshold == 80
SkillWeight == 600
FieldWeight == 400

(* ------------------------------------------------------------------ *)
(* Catalog load                                                          *)
(* ------------------------------------------------------------------ *)
\* A CSV skills cell is empty (read as NaN) or holds comma-separated pieces.
NaNCell == <<NaN>>

\* backends.py: fillna("") then [s.strip().lower() for s in str(x).split(",")]
LoadSkills(cell) ==
  IF cell = NaNCell THEN <<>>
  ELSE [i \in 1..Len(cell) |-> Lower(Strip(cell[i]))]

\* backends.py leaves every other column as read (a missing field stays NaN).
LoadRow(raw) == [raw EXCEPT !.skills = LoadSkills(raw.skills)]

LoadCatalog(rawdf) == [i \in 1..Len(rawdf) |-> LoadRow(rawdf[i])]

NonEmptyPiece(p) == Strip(p) # <<>>

\* backends_bulletproof.py safe_skills_processing
safe_skills_processing(cell) ==
  IF cell = NaNCell THEN <<>>
  ELSE LET kept == SelectSeq(cell, NonEmptyPiece)
       IN [i \in 1..Len(kept) |-> Lower(Strip(kept[i]))]

General == <<"G", "e", "n", "e", "r", "a", "l">>

\* backends_bulletproof.py safe_fillna
safe_fillna(cell, default_value) == IF cell = NaN THEN default_value ELSE cell

bp_LoadRow(raw) ==
  [raw EXCEPT !.field = safe_fillna(raw.field, General),
              !.skills = safe_skills_processing(raw.skills)]

bp_LoadCatalog(rawdf) == [i \in 1..Len(rawdf) |-> bp_LoadRow(rawdf[i])]

(* ------------------------------------------------------------------ *)
(* Scorers                                                               *)
(* ------------------------------------------------------------------ *)
\* backends.py lines 58-60: the request's text, normalised.
NormSkills(skills) == [i \in 1..Len(skills) |-> Strip(Lower(skills[i]))]
NormField(field) == Strip(Lower(field))
NormLocations(locs) == [i \in 1..Len(locs) |-> Strip(Lower(locs[i]))]

\* The skills block with the division by the number of query skills left out.
SkillPart_NoDivide(row, student_skills) ==
  IF student_skills = <<>> THEN 0
  ELSE Cardinality(ToSet(student_skills) \cap ToSet(row.skills)) * SkillWeight

\* backends.py calculate_score: the skills block (lines 68-70).
SkillPart(row, student_skills) ==
  IF student_skills = <<>> THEN 0
  ELSE Round3(Cardinality(ToSet(student_skills) \cap ToSet(row.skills)) * SkillWeight,
              Max(Len(student_skills), 1))

\* row["field"].lower() raises AttributeError on a NaN field.
FieldRaises(row, student_field) == student_field # <<>> /\ row.field = NaN

FieldPart(row, student_field) ==
  IF student_field # <<>>
     /\ FuzzRatio(Lower(row.field), student_field) >= FieldThreshold
  THEN FieldWeight ELSE 0

\* backends.py calculate_score(row): raised, or the rounded score.
calculate_score(row, student_skills, student_field) ==
  IF FieldRaises(row, student_field)
  THEN [raised |-> TRUE, score |-> 0, skill |-> SkillPart(row, student_skills)]
  ELSE [raised |-> FALSE,
        score |-> SkillPart(row, student_skills) + FieldPart(row, student_field),
        skill |-> SkillPart(row, student_skills)]

\* backends_bulletproof.py safe_string_operation(value) with operation="lower"
safe_string_operation(value) == IF value = NaN THEN <<>> ELSE Lower(value)

\* backends_bulletproof.py safe_list_operation on a list of strings
safe_list_operation(lst) == lst

Truthy(s) == s # <<>>

\* backends_bulletproof.py lines 258-259, 264-265
bp_NormSkills(skills) ==
  LET kept == SelectSeq(safe_list_operation(skills), Truthy)
  IN [i \in 1..Len(kept) |-> safe_string_operation(kept[i])]
bp_NormField(field) == safe_string_operation(safe_string_operation(field))

\* calculate_score_safely: the skills block (lines 201-216)
bp_SkillPart(row, student_skills) ==
  IF student_skills = <<>> THEN 0
  ELSE LET student_skills_clean ==
             [i \in 1..Len(student_skills) |-> safe_string_operation(student_skills[i])]
           row_skills_clean ==
             [i \in 1..Len(row.skills) |-> safe_string_operation(row.skills[i])]
       IN Round3(Cardinality(ToSet(student_skills_clean) \cap ToSet(row_skills_clean))
                   * SkillWeight,
                 Len(student_skills_clean))

\* calculate_score_safely: the field block (lines 219-227)
bp_FieldPart(row, student_field) ==
  LET row_field == safe_string_operation(row.field)
  IN IF student_field # <<>> /\ row_field # <<>>
        /\ FuzzRatio(row_field, safe_string_operation(student_field)) >= FieldThreshold
     THEN FieldWeight ELSE 0

calculate_score_safely(row, student_skills, student_field) ==
  [raised |-> FALSE,
   score |-> Max(0, Min(1000, bp_SkillPart(row, student_skills)
                               + bp_FieldPart(row, student_field))),
   skill |-> bp_SkillPart(row, student_skills)]

(* ------------------------------------------------------------------ *)
(* Selection per location                                                *)
(* ------------------------------------------------------------------ *)
\* The identity key the handlers deduplicate on.
Key(r) == <<r.company, r.internship_title, r.location>>

\* df[df["location"].str.contains(loc, case=False, na=False)]
RECURSIVE Bucket(_, _)
Bucket(df, loc) ==
  IF df = <<>> THEN <<>>
  ELSE (IF StrContains(Head(df).location, loc) THEN <<Head(df)>> ELSE <<>>)
       \o Bucket(Tail(df), loc)

\* df_loc["match_score"] = df_loc.apply(calculate_score, axis=1)
Scored(df_loc, student_skills, student_field) ==
  [i \in 1..Len(df_loc) |->
     [company |-> df_loc[i].company,
      internship_title |-> df_loc[i].internship_title,
      field |-> df_loc[i].field,
      location |-> df_loc[i].location,
      skills |-> df_loc[i].skills,
      match_score |-> calculate_score(df_loc[i], student_skills, student_field).score]]

\* apply() lets the exception of any row out of the handler.
AnyRaises(df_loc, student_field) ==
  \E i \in 1..Len(df_loc) : FieldRaises(df_loc[i], student_field)

Injections(k, n) ==
  {p \in [1..k -> 1..n] : \A i, j \in 1..k : i # j => p[i] # p[j]}

Descending(rows) ==
  \A i \in 1..(Len(rows) - 1) : rows[i].match_score >= rows[i + 1].match_score

\* The orders a sort can give rows of equal score: t[i] is the rank of the
\* row at position i of the frame among its equals.
TieOrders == Injections(MaxRows, MaxRows)

\* The positions idxs of rows, best first: higher score, then lower rank t.
RECURSIVE Ranked(_, _, _)
Ranked(rows, idxs, t) ==
  IF idxs = {} THEN <<>>
  ELSE LET b == CHOOSE i \in idxs :
                  \A j \in idxs \ {i} :
                    \/ rows[i].match_score > rows[j].match_score
                    \/ rows[i].match_score = rows[j].match_score /\ t[i] < t[j]
       IN <<rows[b]>> \o Ranked(rows, idxs \ {b}, t)

\* sort_values(by="match_score", ascending=False) with the default
\* kind="quicksort": descending; the order of equal scores is not specified,
\* but the algorithm is deterministic: the running build fixes it (t).
SortValues(rows, t) == Ranked(rows, 1..Len(rows), t)

\* A stable descending sort: equal scores stay in their original order.
StableDescending(rows) ==
  LET n == Len(rows)
      before(i, j) == \/ rows[i].match_score > rows[j].match_score
                      \/ rows[i].match_score = rows[j].match_score /\ i < j
      p == CHOOSE q \in Injections(n, n) :
             \A i, j \in 1..n : i < j => before(q[i], q[j])
  IN [i \in 1..n |-> rows[p[i]]]

\* DataFrame.head(n): the first n rows, or all but the last -n for n < 0.
DfHead(rows, n) ==
  IF n >= 0 THEN SubSeq(rows, 1, Min(n, Len(rows)))
  ELSE SubSeq(rows, 1, Max(0, Len(rows) + n))

\* DataFrame.nlargest(n, "match_score"), keep="first"
NLargest(rows, n) == DfHead(StableDescending(rows), Max(n, 0))

InSelected(r, selected) == \E i \in 1..Len(selected) : Key(selected[i]) = Key(r)

\* remaining without the key test: every row of the bucket.
Remaining_All(df_loc, selected) == df_loc

\* backends.py lines 93-94: the rows of the bucket not among the selected.
RECURSIVE Remaining(_, _)
Remaining(df_loc, selected) ==
  IF df_loc = <<>> THEN <<>>
  ELSE (IF InSelected(Head(df_loc), selected) THEN <<>> ELSE <<Head(df_loc)>>)
       \o Remaining(Tail(df_loc), selected)

\* remaining.sample(k): k rows drawn without replacement, any order.
Sample(rows, k) ==
  {[i \in 1..k |-> rows[p[i]]] : p \in Injections(k, Len(rows))}

\* The backfill draws whenever it is entered, rows remaining or not.
SampleRuns_Always(df_loc, top_loc, top_n) == Len(DfHead(top_loc, top_n)) < top_n

\* backends.py lines 92-95: the backfill is entered and has rows to draw.
SampleRuns(df_loc, top_loc, top_n) ==
  LET selected == DfHead(top_loc, top_n)
  IN Len(selected) < top_n /\ Remaining(df_loc, selected) # <<>>

\* backends.py lines 90-97 for one sorted bucket: head, then backfill.
Backfilled(df_loc, top_loc, top_n) ==
  LET selected == DfHead(top_loc, top_n)
      remaining == Remaining(df_loc, selected)
  IN IF SampleRuns(df_loc, top_loc, top_n)
     THEN {selected \o extra :
             extra \in Sample(remaining, Min(top_n - Len(selected), Len(remaining)))}
     ELSE {selected}

\* backends.py lines 82-97: what one location can add to results.
Selections(df, loc, student_skills, student_field, top_n, t) ==
  LET df_loc == Bucket(df, loc)
      scored == Scored(df_loc, student_skills, student_field)
  IN IF df_loc = <<>> THEN {<<>>}
     ELSE Backfilled(scored, SortValues(scored, t), top_n)

\* backends.py lines 81-98 over all locations: one selection per location.
RECURSIVE AllSelections(_, _, _, _, _, _)
AllSelections(df, locs, student_skills, student_field, top_n, t) ==
  IF locs = <<>> THEN {<<>>}
  ELSE {<<sel>> \o rest :
          sel \in Selections(df, Head(locs), student_skills, student_field, top_n, t),
          rest \in AllSelections(df, Tail(locs), student_skills, student_field, top_n, t)}

\* The sample() calls of one request: one per location whose backfill runs.
RECURSIVE Draws(_, _, _, _, _, _)
Draws(df, locs, student_skills, student_field, top_n, t) ==
  IF locs = <<>> THEN 0
  ELSE LET scored == Scored(Bucket(df, Head(locs)), student_skills, student_field)
       IN (IF scored # <<>> /\ SampleRuns(scored, SortValues(scored, t), top_n)
           THEN 1 ELSE 0)
          + Draws(df, Tail(locs), student_skills, student_field, top_n, t)

RECURSIVE Flatten(_)
Flatten(ss) == IF ss = <<>> THEN <<>> ELSE Head(ss) \o Flatten(Tail(ss))

\* The request raises out of the handler when a scored row raises.
Aborts(df, locs, student_field) ==
  \E i \in 1..Len(locs) : AnyRaises(Bucket(df, locs[i]), student_field)

(* ------------------------------------------------------------------ *)
(* Deduplication                                                         *)
(* ------------------------------------------------------------------ *)
ApplyPrefix == <<"https://company.com/apply/">>

\* backends.py lines 107-109: the record as returned.
Formatted(r) ==
  [company |-> r.company,
   internship_title |-> r.internship_title,
   field |-> r.field,
   location |-> r.location,
   skills |-> Join(r.skills),
   match_score |-> r.match_score,
   apply_link |-> ApplyPrefix \o ReplaceSpace(r.internship_title)]

\* backends.py lines 101-110
RECURSIVE Dedup(_, _)
Dedup(results, seen_keys) ==
  IF results = <<>> THEN <<>>
  ELSE IF Key(Head(results)) \in seen_keys
       THEN Dedup(Tail(results), seen_keys)
       ELSE <<Formatted(Head(results))>>
            \o Dedup(Tail(results), seen_keys \cup {Key(Head(results))})

\* backends_bulletproof.py lines 310-318
bp_Formatted(r) ==
  [company |-> safe_string_operation(r.company),
   internship_title |-> safe_string_operation(r.internship_title),
   field |-> safe_string_operation(r.field),
   location |-> safe_string_operation(r.location),
   skills |-> Join(safe_list_operation(r.skills)),
   match_score |-> r.match_score,
   apply_link |-> ApplyPrefix \o ReplaceSpace(safe_string_operation(r.internship_title))]

\* backends_bulletproof.py lines 307-327, over the slice it is given
RECURSIVE bp_Dedup(_, _)
bp_Dedup(results, seen_keys) ==
  IF results = <<>> THEN <<>>
  ELSE LET r == bp_Formatted(Head(results))
       IN IF Key(r) \in seen_keys
          THEN bp_Dedup(Tail(results), seen_keys)
          ELSE <<r>> \o bp_Dedup(Tail(results), seen_keys \cup {Key(r)})

(* ------------------------------------------------------------------ *)
(* backends_bulletproof.py selection                                     *)
(* ------------------------------------------------------------------ *)
TopNLow == 1
TopNHigh == 20

\* top_n = max(1, min(20, req.top_n))
Clamp(top_n) == Max(TopNLow, Min(TopNHigh, top_n))

bp_NormLocations(locs) ==
  LET kept == SelectSeq(safe_list_operation(locs), Truthy)
  IN [i \in 1..Len(kept) |-> safe_string_operation(kept[i])]

bp_Scored(df_loc, student_skills, student_field) ==
  [i \in 1..Len(df_loc) |->
     [company |-> df_loc[i].company,
      internship_title |-> df_loc[i].internship_title,
      field |-> df_loc[i].field,
      location |-> df_loc[i].location,
      skills |-> df_loc[i].skills,
      match_score |->
        calculate_score_safely(df_loc[i], student_skills, student_field).score]]

\* backends_bulletproof.py lines 289-298 for one location
bp_Selection(df, loc, student_skills, student_field, top_n) ==
  LET df_loc == Bucket(df, loc)
  IN IF df_loc = <<>> THEN <<>>
     ELSE NLargest(bp_Scored(df_loc, student_skills, student_field), top_n)

\* backends_bulletproof.py lines 274-280: no location given
bp_General(df, student_skills, student_field, top_n) ==
  DfHead(NLargest(bp_Scored(df, student_skills, student_field), top_n * 2), top_n)

\* results[:top_n]
Slice(results, n) == SubSeq(results, 1, Min(n, Len(results)))

(* ------------------------------------------------------------------ *)
(* The handler's working frame                                           *)
(* ------------------------------------------------------------------ *)
\* df = matches_df without the copy: df is the catalog's own frame.
DfCopy_Alias(catalog) == [rows |-> catalog, own |-> FALSE]

\* df = matches_df.copy(): a frame of its own with the catalog's rows.
DfCopy(catalog) == [rows |-> catalog, own |-> TRUE]

\* df["match_score"] = ...: the scored rows replace the rows of the frame df.
SetScores(df, scored) == [df EXCEPT !.rows = scored]

\* The catalog once the handler has finished with its frame df.
CatalogAfter(catalog, df) == IF df.own THEN catalog ELSE df.rows

(* ------------------------------------------------------------------ *)
(* State                                                                 *)
(* ------------------------------------------------------------------ *)
VARIABLES
  matches_df,      \* backends.py's catalog, as loaded
  bp_matches_df,   \* backends_bulletproof.py's catalog, as loaded
  req,             \* the request last handled
  resp,            \* what the handler computed and returned for it
  ties,            \* the order the build's sort gives rows of equal score
  rng,             \* sample() calls made so far on the shared generator
  sin,             \* scorer under test: the row and the query
  sout             \* scorer under test: the result

vars == <<matches_df, bp_matches_df, req, resp, ties, rng, sin, sout>>

SeqsUpTo(S, n) == UNION {[1..k -> S] : k \in 0..n}

(* Inputs of the request handlers *)
Titles == {<<"t">>}
RowLocations == {<<"b">>, <<"B", "m">>}
\* field and skills cells of a row: both filled in, or both left empty
RowContents ==
  {[field |-> <<"d", "s">>, skills |-> << <<"p">> >>],
   [field |-> NaN, skills |-> NaNCell]}

RawRows ==
  {[company |-> <<"c">>, internship_title |-> t, field |-> c.field,
    location |-> l, skills |-> c.skills] :
     t \in Titles, l \in RowLocations, c \in RowContents}

RawCatalogs == UNION {[1..n -> RawRows] : n \in 1..MaxRows}

TopNs == ((-1)..MaxTopN) \cup {TopNHigh + 1}

Requests ==
  [skills : {<<>>, << <<"p">> >>},
   field : {<<>>, <<"d", "s">>},
   locations : SeqsUpTo({<<"b">>, <<"M">>}, MaxLocs),
   top_n : TopNs]

(* Inputs of the scorers *)
Tokens == {<<>>, <<" ">>, <<"p">>, <<" ", "P">>, <<"s">>}
ScoreFields == {<<>>, <<"d", "s">>, <<"D", "s", "s">>}
ScoreRows ==
  [company : {<<"c">>}, internship_title : {<<"t">>},
   field : {NaN, <<"d", "s">>, <<"w">>},
   location : {<<"b">>},
   skills : {NaNCell, << <<"p">> >>, << <<" ", "P">>, <<"s">> >>}]

ScoreInputs == [row : ScoreRows, skills : SeqsUpTo(Tokens, MaxSkills), field : ScoreFields]

NoReq == [top_n |-> 0, skills |-> <<>>, field |-> <<>>, locations |-> <<>>]
NoResp ==
  [impl |-> "none", status |-> "none", student_locations |-> <<>>, top_n |-> 0,
   selected |-> <<>>, results |-> <<>>, sampled |-> 0, recommendations |-> <<>>]
NoIn ==
  [row |-> [company |-> <<>>, internship_title |-> <<>>, field |-> <<>>,
            location |-> <<>>, skills |-> NaNCell],
   skills |-> <<>>, field |-> <<>>]
NoOut == [impl |-> "none", raised |-> FALSE, score |-> 0, skill |-> 0]

Init ==
  /\ \E raw \in RawCatalogs :
       /\ matches_df = LoadCatalog(raw)
       /\ bp_matches_df = bp_LoadCatalog(raw)
  /\ req = NoReq
  /\ resp = NoResp
  /\ ties \in TieOrders
  /\ rng = 0
  /\ sin = NoIn
  /\ sout = NoOut

(* ------------------------------------------------------------------ *)
(* Request handlers                                                      *)
(* ------------------------------------------------------------------ *)
\* backends.py get_recommendations(req) for the request r
Handle(r) ==
  LET student_skills == NormSkills(r.skills)
      student_field == NormField(r.field)
      student_locations == NormLocations(r.locations)
      df == DfCopy(matches_df)
      draws == Draws(df.rows, student_locations, student_skills, student_field,
                     r.top_n, ties)
  IN /\ resp.impl = "none"
     /\ req' = r
     /\ IF Aborts(df.rows, student_locations, student_field)
        THEN /\ resp' = [impl |-> "backends", status |-> "error",
                         student_locations |-> student_locations,
                         top_n |-> r.top_n, selected |-> <<>>, results |-> <<>>,
                         sampled |-> 0, recommendations |-> <<>>]
             /\ rng' = rng
        ELSE /\ rng + draws <= MaxDraws
             /\ rng' = rng + draws
             /\ \E sel \in AllSelections(df.rows, student_locations, student_skills,
                                          student_field, r.top_n, ties) :
                  resp' = [impl |-> "backends", status |-> "ok",
                           student_locations |-> student_locations,
                           top_n |-> r.top_n, selected |-> sel,
                           results |-> Flatten(sel), sampled |-> draws,
                           recommendations |-> Dedup(Flatten(sel), {})]
     /\ matches_df' = CatalogAfter(matches_df, df)
     /\ UNCHANGED <<bp_matches_df, ties, sin, sout>>

\* backends_bulletproof.py get_recommendations(req) for the request r
bp_Handle(r) ==
  LET student_skills == bp_NormSkills(r.skills)
      student_field == bp_NormField(r.field)
      student_locations == bp_NormLocations(r.locations)
      top_n == Clamp(r.top_n)
      df == DfCopy(bp_matches_df)
      written == IF student_locations = <<>>
                 THEN SetScores(df, bp_Scored(df.rows, student_skills, student_field))
                 ELSE df
      sel == IF student_locations = <<>>
             THEN <<bp_General(df.rows, student_skills, student_field, top_n)>>
             ELSE [i \in 1..Len(student_locations) |->
                     bp_Selection(df.rows, student_locations[i],
                                  student_skills, student_field, top_n)]
  IN /\ resp.impl = "none"
     /\ req' = r
     /\ resp' = [impl |-> "bulletproof", status |-> "ok",
                 student_locations |-> student_locations,
                 top_n |-> top_n, selected |-> sel,
                 results |-> Flatten(sel), sampled |-> 0,
                 recommendations |-> bp_Dedup(Slice(Flatten(sel), top_n), {})]
     /\ bp_matches_df' = CatalogAfter(bp_matches_df, written)
     /\ UNCHANGED <<matches_df, ties, rng, sin, sout>>

get_recommendations == \E r \in Requests : Handle(r)

bp_get_recommendations == \E r \in Requests : bp_Handle(r)

\* The response leaves the handler; nothing of the request is kept.
Deliver ==
  /\ resp.impl # "none"
  /\ req' = NoReq
  /\ resp' = NoResp
  /\ UNCHANGED <<matches_df, bp_matches_df, ties, rng, sin, sout>>

Next == get_recommendations \/ bp_get_recommendations \/ Deliver

Spec == Init /\ [][Next]_vars

(* ------------------------------------------------------------------ *)
(* One build serving requests on a two-listing catalog                   *)
(* ------------------------------------------------------------------ *)
\* Two listings with different keys: their scores differ for a query with the
\* skill p and are equal for a query without skills.
ServeRows ==
  {[company |-> <<"c">>, internship_title |-> <<"t">>, field |-> <<"d", "s">>,
    location |-> <<"b">>, skills |-> << <<"p">> >>],
   [company |-> <<"c">>, internship_title |-> <<"t">>, field |-> NaN,
    location |-> <<"B", "m">>, skills |-> NaNCell]}

ServeCatalogs == UNION {[1..n -> ServeRows] : n \in 1..MaxRows}

\* Two builds: one sort keeps rows of equal score in frame order, the other
\* reverses them.
ServeTies == {[i \in 1..MaxRows |-> i], [i \in 1..MaxRows |-> MaxRows + 1 - i]}

\* Requests without a field: no scorer raises on them.
ServeRequests == {r \in Requests : r.field = <<>>}

InitServe ==
  /\ \E raw \in ServeCatalogs :
       /\ matches_df = LoadCatalog(raw)
       /\ bp_matches_df = bp_LoadCatalog(raw)
  /\ req = NoReq
  /\ resp = NoResp
  /\ ties \in ServeTies
  /\ rng = 0
  /\ sin = NoIn
  /\ sout = NoOut

Serve == \E r \in ServeRequests : Handle(r)

bp_Serve == \E r \in ServeRequests : bp_Handle(r)

NextServe == Serve \/ bp_Serve \/ Deliver

SpecServe == InitServe /\ [][NextServe]_vars

(* ------------------------------------------------------------------ *)
(* The scorers on one row                                                *)
(* ------------------------------------------------------------------ *)
InitScore ==
  /\ matches_df = <<>>
  /\ bp_matches_df = <<>>
  /\ req = NoReq
  /\ resp = NoResp
  /\ ties = [i \in 1..MaxRows |-> i]
  /\ rng = 0
  /\ sin \in ScoreInputs
  /\ sout = NoOut

\* backends.py: the row as loaded, scored for the request's text
ScoreRow ==
  LET out == calculate_score(LoadRow(sin.row), NormSkills(sin.skills),
                             NormField(sin.field))
  IN /\ sout' = [impl |-> "backends", raised |-> out.raised,
                 score |-> out.score, skill |-> out.skill]
     /\ UNCHANGED <<matches_df, bp_matches_df, req, resp, ties, rng, sin>>

\* backends_bulletproof.py: the row as loaded, scored for the request's text
bp_ScoreRow ==
  LET out == calculate_score_safely(bp_LoadRow(sin.row), bp_NormSkills(sin.skills),
                                    bp_NormField(sin.field))
  IN /\ sout' = [impl |-> "bulletproof", raised |-> out.raised,
                 score |-> out.score, skill |-> out.skill]
     /\ UNCHANGED <<matches_df, bp_matches_df, req, resp, ties, rng, sin>>

NextScore == ScoreRow \/ bp_ScoreRow

SpecScore == InitScore /\ [][NextScore]_vars

(* ------------------------------------------------------------------ *)
(* Properties of the scorers (checked under SpecScore)                   *)
(* ------------------------------------------------------------------ *)
Scored1 == sout.impl # "none" /\ ~sout.raised

\* The query's skill tokens as the scorer under test normalises them.
QuerySkills ==
  IF sout.impl = "bulletproof" THEN bp_NormSkills(sin.skills) ELSE NormSkills(sin.skills)

\* The listing's skill tokens as the scorer under test sees them.
ListingSkills ==
  IF sout.impl = "bulletproof" THEN bp_LoadRow(sin.row).skills ELSE LoadRow(sin.row).skills

\* The result of the scorer `impl` on the row under test for a skill list.
ScoreOf(impl, skills) ==
  IF impl = "bulletproof"
  THEN calculate_score_safely(bp_LoadRow(sin.row), bp_NormSkills(skills),
                              bp_NormField(sin.field))
  ELSE calculate_score(LoadRow(sin.row), NormSkills(skills), NormField(sin.field))

\* C3: every score a scorer returns lies in [0, 1] (0..1000 thousandths),
\* for any skill list (repeated tokens included) and any field.
C3_ScoreInUnitInterval == Scored1 => (0 <= sout.score /\ sout.score <= 1000)

\* C3 witness: a query whose skills all match and whose field matches
\* reaches the upper end of the range.
C3_Witness == Scored1 /\ sout.impl = "backends" /\ sout.score = 1000

\* C4: the skill component is 0.6 * M / max(|Q|, 1), M the size of the
\* intersection of the query skill set and the listing skill set, |Q| the
\* size of the query skill set.
C4_SkillComponent ==
  Scored1 =>
    sout.skill = Round3(Cardinality(ToSet(QuerySkills) \cap ToSet(ListingSkills))
                          * SkillWeight,
                        Max(Cardinality(ToSet(QuerySkills)), 1))

\* C5: replacing a query skill token by one that differs only in letter
\* case or surrounding whitespace leaves the score unchanged.
C5_TokenNormalisation ==
  sout.impl # "none" =>
    \A i \in 1..Len(sin.skills) : \A v \in Tokens :
      Strip(Lower(v)) = Strip(Lower(sin.skills[i])) =>
        LET other == ScoreOf(sout.impl, [sin.skills EXCEPT ![i] = v])
        IN other.raised = sout.raised /\ other.score = sout.score

(* ------------------------------------------------------------------ *)
(* Properties of the request handlers (checked under Spec)               *)
(* ------------------------------------------------------------------ *)
Handled == resp.impl # "none"
Answered == Handled /\ resp.status = "ok"
ByBulletproof == resp.impl = "bulletproof"

\* The catalog of the handler that answered.
Catalog == IF ByBulletproof THEN bp_matches_df ELSE matches_df

\* A selected row as the answering handler returns it, and its key there.
AsReturned(r) == IF ByBulletproof THEN bp_Formatted(r) ELSE Formatted(r)
KeyAsReturned(r) == Key(AsReturned(r))

\* The rows of a bucket with the score the answering handler gives them.
ScoredBucket(df_loc) ==
  IF ByBulletproof
  THEN bp_Scored(df_loc, bp_NormSkills(req.skills), bp_NormField(req.field))
  ELSE Scored(df_loc, NormSkills(req.skills), NormField(req.field))

\* The positions of a list that hold the first occurrence of their key.
FirstOccurrences(rows) ==
  {j \in 1..Len(rows) :
     \A k \in 1..(j - 1) : KeyAsReturned(rows[k]) # KeyAsReturned(rows[j])}

\* The rows at the given positions, in order.
RECURSIVE Pick(_, _, _)
Pick(rows, keep, j) ==
  IF j > Len(rows) THEN <<>>
  ELSE (IF j \in keep THEN <<rows[j]>> ELSE <<>>) \o Pick(rows, keep, j + 1)

\* C1: the recommendations hold exactly one entry for every identity key of
\* the accumulated results, and it is the first occurrence of that key.
C1_DedupFirstWins ==
  Answered =>
    LET res == resp.results
        recs == resp.recommendations
    IN /\ \A i, j \in 1..Len(recs) : i # j => Key(recs[i]) # Key(recs[j])
       /\ \A j \in 1..Len(res) :
            \E i \in 1..Len(recs) : Key(recs[i]) = KeyAsReturned(res[j])
       /\ \A i \in 1..Len(recs) :
            \E j \in FirstOccurrences(res) : recs[i] = AsReturned(res[j])

\* C2: every requested location adds at most top_n rows to the results and
\* at least min(top_n, |bucket|).
C2_ContributionBounds ==
  Answered =>
    \A i \in 1..Len(resp.student_locations) :
      LET bucket == Bucket(Catalog, resp.student_locations[i])
      IN /\ Len(resp.selected[i]) <= resp.top_n
         /\ Len(resp.selected[i]) >= Min(resp.top_n, Len(bucket))

\* C6: in every non-empty bucket the selected rows are the first top_n of
\* the bucket in descending score order, equal scores in catalog order.
C6_StableTopN ==
  Answered /\ resp.top_n >= 1 =>
    \A i \in 1..Len(resp.student_locations) :
      LET bucket == Bucket(Catalog, resp.student_locations[i])
      IN bucket # <<>> =>
           resp.selected[i] = Slice(StableDescending(ScoredBucket(bucket)), resp.top_n)

\* C7: with an empty locations list the whole catalog is scored and the
\* top_n best are returned: at most top_n unique entries, in descending
\* score order, led by a best-scoring listing, none only if the catalog is
\* empty.
C7_NoLocationFilter ==
  Answered /\ req.locations = <<>> /\ resp.top_n >= 1 =>
    LET recs == resp.recommendations
        all == ScoredBucket(Catalog)
    IN /\ Len(recs) <= resp.top_n
       /\ \A i, j \in 1..Len(recs) : i # j => Key(recs[i]) # Key(recs[j])
       /\ Descending(recs)
       /\ Catalog # <<>> => recs # <<>>
       /\ recs # <<>> =>
            \A k \in 1..Len(all) : recs[1].match_score >= all[k].match_score

\* C8: with locations given, the recommendations are the selections of the
\* locations, each in rank order, concatenated in request order, less the
\* later occurrences of a key already seen; an empty bucket adds nothing.
C8_ConcatenationOrder ==
  Answered /\ resp.student_locations # <<>> =>
    LET res == Flatten(resp.selected)
        kept == Pick(res, FirstOccurrences(res), 1)
    IN /\ \A i \in 1..Len(resp.student_locations) :
            /\ Descending(resp.selected[i])
            /\ Bucket(Catalog, resp.student_locations[i]) = <<>>
                 => resp.selected[i] = <<>>
       /\ resp.recommendations = [i \in 1..Len(kept) |-> AsReturned(kept[i])]

\* What the answering handler can return for the request r.
Outcomes(r) ==
  IF ByBulletproof
  THEN LET locs == bp_NormLocations(r.locations)
           sk == bp_NormSkills(r.skills)
           fd == bp_NormField(r.field)
           n == Clamp(r.top_n)
           res == IF locs = <<>> THEN bp_General(bp_matches_df, sk, fd, n)
                  ELSE Flatten([i \in 1..Len(locs) |->
                                  bp_Selection(bp_matches_df, locs[i], sk, fd, n)])
       IN {bp_Dedup(Slice(res, n), {})}
  ELSE {Dedup(Flatten(sel), {}) :
          sel \in AllSelections(matches_df, NormLocations(r.locations),
                                NormSkills(r.skills), NormField(r.field), r.top_n,
                                ties)}

\* C9: a request whose top_n is outside [1, 20] is answered as the same
\* request with top_n clamped to [1, 20] is answered.
C9_TopNClamped ==
  Answered /\ req.top_n \notin TopNLow..TopNHigh =>
    resp.recommendations \in Outcomes([req EXCEPT !.top_n = Clamp(req.top_n)])

\* C10: a row whose score cannot be computed never aborts the request.
C10_RowFaultIsolated == Handled => resp.status = "ok"

(* ------------------------------------------------------------------ *)
(* Properties of one build serving requests (checked under SpecServe)    *)
(* ------------------------------------------------------------------ *)
\* The columns of a catalog listing as loaded.
Columns == {"company", "internship_title", "field", "location", "skills"}

\* C11: request processing leaves the catalog unchanged: no step of either
\* handler changes a listing, its skills list or its columns; scores, skills
\* text and apply_link go to per-request copies only.
C11_CatalogUnchanged ==
  [][matches_df' = matches_df /\ bp_matches_df' = bp_matches_df]_vars

\* C11 witness: a request without locations was answered from frame-wide
\* scores, its recommendations carry match_score and apply_link, and the
\* catalog listings still have the loaded columns only.
C11_Witness ==
  /\ Answered /\ ByBulletproof /\ req.locations = <<>>
  /\ resp.recommendations # <<>>
  /\ {"match_score", "apply_link"} \subseteq DOMAIN resp.recommendations[1]
  /\ \A i \in 1..Len(bp_matches_df) : DOMAIN bp_matches_df[i] = Columns

\* The bucket of the i-th requested location, scored as backends.py scores it.
ScoredAt(i) == ScoredBucket(Bucket(matches_df, resp.student_locations[i]))

\* C13: in backends.py the backfill never adds a row. For every top_n and
\* every bucket, a top-K selection shorter than top_n leaves no remaining
\* row, each location contributes exactly the head(top_n) of its sorted
\* bucket, and sample() is not called.
C13_BackfillNeverAdds ==
  Answered /\ ~ByBulletproof =>
    /\ resp.sampled = 0
    /\ \A i \in 1..Len(resp.student_locations) :
         LET selected == DfHead(SortValues(ScoredAt(i), ties), resp.top_n)
         IN /\ Len(selected) < resp.top_n => Remaining(ScoredAt(i), selected) = <<>>
            /\ resp.selected[i] = selected

\* C13 witness: backends.py answered a request for which a non-empty bucket
\* holds fewer rows than top_n, so the backfill branch was entered.
C13_Witness ==
  /\ Answered /\ ~ByBulletproof /\ resp.sampled = 0
  /\ \E i \in 1..Len(resp.student_locations) :
       /\ resp.selected[i] # <<>>
       /\ Len(resp.selected[i]) < resp.top_n

====
